---- MODULE Spec2Model ----
(***************************************************************************)
(* The LRU cache engine of libs/memory-cache/src/lib/memory-cache.ts:      *)
(* a key -> node map, a doubly-linked recency list between two sentinels,  *)
(* per-entry expiration, and the hit / miss / eviction counters.           *)
(*                                                                         *)
(* The cache object is a record s with the fields of class LRUCache; each  *)
(* method is an operator from s (and its arguments) to the new s and the   *)
(* returned value, and each public method is one action.                   *)
(***************************************************************************)
EXTENDS Integers, Sequences, FiniteSets, TLC

\* ---------------------------------------------------------------- bounds
MaxCap == 2            \* capacities 1..MaxCap are constructed
MaxTicks == 2          \* the clock advances at most this many milliseconds
MaxCount == 2          \* hits and misses are not driven above this value
MaxEvict == 1           \* evictions are not driven above this value
MaxForeign == 1        \* calls of other callers let in between the items of one batch
MaxGets == 3           \* get calls since construction are not driven above this value
MaxBatch == 2          \* longest batch input
Now0 == 2              \* Date.now() at construction
MaxAnswered == 4       \* requests the rate limiting middleware is called for
MaxInserts == 3        \* insertions of a new key that the ledger counts

TestCap == 3           \* the capacity of the test suite's cache

AllKeys == <<"a", "b", "c", "d", "e", "f">>
FirstKeys(n) == {AllKeys[i] : i \in 1..n}
\* The keys the callers use: one more than fits, so that the cache overflows.
SmallKeys == FirstKeys(MaxCap + 1)
TestKeys == FirstKeys(TestCap + 1)
\* The keys the clients of the API server use; "batch" is a key like another.
ApiKeys == {"a", "batch"}
Keys == SmallKeys \cup TestKeys \cup ApiKeys

\* ------------------------------------------------------------- JS values
\* An optional number (ttl?, defaultTtl?, expiresAt?) is the empty set when
\* undefined and {n} when it is the number n.
None == {}
Some(n) == {n}
The(o) == CHOOSE n \in o : TRUE
\* JavaScript truthiness of an optional number: undefined and 0 are falsy.
Truthy(o) == o # None /\ o # Some(0)

Undefined == "undefined"    \* the value undefined
Null == "null"              \* the null pointer
HEAD == "head"              \* this.head
TAIL == "tail"              \* this.tail
Nodes == Keys \cup {HEAD, TAIL}

Values == {"v1", Undefined}
TTLs == {None, Some(-1), Some(0), Some(1)}
DefaultTtls == {None, Some(0), Some(1)}

VARIABLES
    maxSize,      \* this.maxSize
    defaultTtl,   \* this.defaultTtl
    cache,        \* this.cache: key -> [value, expiresAt] of its node
    next,         \* node.next of every node
    prev,         \* node.prev of every node
    hits,         \* this.hits
    misses,       \* this.misses
    evictions,    \* this.evictions
    now,          \* Date.now()
    hist,         \* history of the calls, kept for stating the properties
    run,          \* the batch call that is between two of its items, if any
    policy,       \* what the host serializes: "operation" (whole calls) or "item"
    requestCounts,\* main.ts requestCounts: client id -> [count, resetTime]
    limiter,      \* the middleware simpleRateLimit returned, if it was called
    answered,     \* the requests the middleware has seen, with what it did
    response      \* the last request of the API server, with its route and status

vars == <<maxSize, defaultTtl, cache, next, prev, hits, misses, evictions, now, hist,
          run, policy, requestCounts, limiter, answered, response>>

\* The cache object as one record.
This == [cache |-> cache, next |-> next, prev |-> prev,
         hits |-> hits, misses |-> misses, evictions |-> evictions]

\* ------------------------------------------------- private helper methods
\* Mutant of removeNode: only the forward link around the node is closed.
removeNode_ForwardOnly(s, node) ==
    IF s.prev[node] # Null
    THEN [s EXCEPT !.next[s.prev[node]] = s.next[node]]
    ELSE s

\* removeNode(node): unlink node from its neighbours.
removeNode(s, node) ==
    LET s1 == IF s.prev[node] # Null
              THEN [s EXCEPT !.next[s.prev[node]] = s.next[node]]
              ELSE s
    IN  IF s1.next[node] # Null
        THEN [s1 EXCEPT !.prev[s1.next[node]] = s1.prev[node]]
        ELSE s1

\* addToFront(node): link node right after the head sentinel.
addToFront(s, node) ==
    LET s1 == [s EXCEPT !.prev[node] = HEAD, !.next[node] = s.next[HEAD]]
        s2 == IF s1.next[HEAD] # Null
              THEN [s1 EXCEPT !.prev[s1.next[HEAD]] = node]
              ELSE s1
    IN  [s2 EXCEPT !.next[HEAD] = node]

\* moveToFront(node)
moveToFront(s, node) == addToFront(removeNode(s, node), node)

\* A node that left the map is unreachable: its own fields are dropped.
Discard(s, node) == [s EXCEPT !.next[node] = Null, !.prev[node] = Null]

\* new Map()
EmptyMap == [k \in {} |-> Null]

\* this.cache.delete(key)
MapDelete(m, key) == [k \in DOMAIN m \ {key} |-> m[k]]

\* this.cache.set(key, node)
MapSet(m, key, node) == [k \in DOMAIN m \cup {key} |-> IF k = key THEN node ELSE m[k]]

\* Mutant of evictLRU: the node after the head sentinel is dropped.
evictLRU_MostRecent(s) ==
    LET mru == s.next[HEAD]
    IN  IF mru # Null /\ mru # TAIL
        THEN [Discard(removeNode([s EXCEPT !.cache = MapDelete(s.cache, mru)], mru), mru)
                 EXCEPT !.evictions = @ + 1]
        ELSE s

\* Mutant of evictLRU: the eviction is not counted.
evictLRU_NotCounted(s) ==
    LET lru == s.prev[TAIL]
    IN  IF lru # Null /\ lru # HEAD
        THEN Discard(removeNode([s EXCEPT !.cache = MapDelete(s.cache, lru)], lru), lru)
        ELSE s

\* evictLRU(): drop the node before the tail sentinel, unless it is the head.
evictLRU(s) ==
    LET lru == s.prev[TAIL]
    IN  IF lru # Null /\ lru # HEAD
        THEN [Discard(removeNode([s EXCEPT !.cache = MapDelete(s.cache, lru)], lru), lru)
                 EXCEPT !.evictions = @ + 1]
        ELSE s

\* Mutant of calculateExpiration: the default ttl goes before the call's.
calculateExpiration_DefaultFirst(ttl) ==
    LET effectiveTtl == IF defaultTtl # None THEN defaultTtl ELSE ttl
    IN  IF Truthy(effectiveTtl) THEN Some(now + The(effectiveTtl)) ELSE None

\* calculateExpiration(ttl)
calculateExpiration(ttl) ==
    LET effectiveTtl == IF ttl # None THEN ttl ELSE defaultTtl
    IN  IF Truthy(effectiveTtl) THEN Some(now + The(effectiveTtl)) ELSE None

\* Mutant of Expired: the entry is expired at its expiry instant already.
Expired_AtExpiry(node) == Truthy(node.expiresAt) /\ now >= The(node.expiresAt)

\* node.expiresAt && Date.now() > node.expiresAt
Expired(node) == Truthy(node.expiresAt) /\ now > The(node.expiresAt)

\* ---------------------------------------------------------- public methods
\* Each returns [s |-> the cache afterwards, ret |-> the returned value].

\* Mutant of delete: the node leaves the map and stays in the list.
delete_NoUnlink(s, key) ==
    IF key \notin DOMAIN s.cache
    THEN [s |-> s, ret |-> FALSE]
    ELSE [s |-> [s EXCEPT !.cache = MapDelete(s.cache, key)], ret |-> TRUE]

\* Mutant of delete: the call reports true whether or not the key was stored.
delete_ReportsTrue(s, key) ==
    IF key \notin DOMAIN s.cache
    THEN [s |-> s, ret |-> TRUE]
    ELSE [s |-> Discard(removeNode([s EXCEPT !.cache = MapDelete(s.cache, key)], key), key),
          ret |-> TRUE]

\* Mutant of delete: the removal is counted as an eviction.
delete_CountsEviction(s, key) ==
    IF key \notin DOMAIN s.cache
    THEN [s |-> s, ret |-> FALSE]
    ELSE [s |-> [Discard(removeNode([s EXCEPT !.cache = MapDelete(s.cache, key)], key), key)
                    EXCEPT !.evictions = @ + 1],
          ret |-> TRUE]

\* Mutant of delete: an expired entry is removed but reported as not stored.
delete_ExpiredIsAbsent(s, key) ==
    IF key \notin DOMAIN s.cache
    THEN [s |-> s, ret |-> FALSE]
    ELSE [s |-> Discard(removeNode([s EXCEPT !.cache = MapDelete(s.cache, key)], key), key),
          ret |-> ~Expired(s.cache[key])]

delete(s, key) ==
    IF key \notin DOMAIN s.cache
    THEN [s |-> s, ret |-> FALSE]
    ELSE [s |-> Discard(removeNode([s EXCEPT !.cache = MapDelete(s.cache, key)], key), key),
          ret |-> TRUE]

\* Mutant of get: a hit leaves the node where it is in the list.
get_NoPromotion(s, key) ==
    IF key \notin DOMAIN s.cache
    THEN [s |-> [s EXCEPT !.misses = @ + 1], ret |-> Undefined]
    ELSE IF Expired(s.cache[key])
    THEN [s |-> [delete(s, key).s EXCEPT !.misses = @ + 1], ret |-> Undefined]
    ELSE [s |-> [s EXCEPT !.hits = @ + 1], ret |-> s.cache[key].value]

\* Mutant of get: a stored value undefined is a miss and is not promoted.
get_UndefinedIsMiss(s, key) ==
    IF key \notin DOMAIN s.cache
    THEN [s |-> [s EXCEPT !.misses = @ + 1], ret |-> Undefined]
    ELSE IF Expired(s.cache[key])
    THEN [s |-> [delete(s, key).s EXCEPT !.misses = @ + 1], ret |-> Undefined]
    ELSE IF s.cache[key].value = Undefined
    THEN [s |-> [s EXCEPT !.misses = @ + 1], ret |-> Undefined]
    ELSE [s |-> [moveToFront(s, key) EXCEPT !.hits = @ + 1], ret |-> s.cache[key].value]

\* Mutant of get: a get that finds its entry expired counts nothing.
get_ExpiredUncounted(s, key) ==
    IF key \notin DOMAIN s.cache
    THEN [s |-> [s EXCEPT !.misses = @ + 1], ret |-> Undefined]
    ELSE IF Expired(s.cache[key])
    THEN [s |-> delete(s, key).s, ret |-> Undefined]
    ELSE [s |-> [moveToFront(s, key) EXCEPT !.hits = @ + 1], ret |-> s.cache[key].value]

get(s, key) ==
    IF key \notin DOMAIN s.cache
    THEN [s |-> [s EXCEPT !.misses = @ + 1], ret |-> Undefined]
    ELSE IF Expired(s.cache[key])
    THEN [s |-> [delete(s, key).s EXCEPT !.misses = @ + 1], ret |-> Undefined]
    ELSE [s |-> [moveToFront(s, key) EXCEPT !.hits = @ + 1], ret |-> s.cache[key].value]

\* Mutant of set: a new key evicts only once the size is above maxSize.
set_LateEviction(s, key, value, ttl) ==
    LET expiresAt == calculateExpiration(ttl)
        newNode == [value |-> value, expiresAt |-> expiresAt]
    IN  IF key \in DOMAIN s.cache
        THEN [s |-> moveToFront([s EXCEPT !.cache[key] = newNode], key), ret |-> TRUE]
        ELSE LET s1 == IF Cardinality(DOMAIN s.cache) > maxSize THEN evictLRU(s) ELSE s
                 s2 == [s1 EXCEPT !.cache = MapSet(s1.cache, key, newNode)]
             IN  [s |-> addToFront(s2, key), ret |-> TRUE]

\* Mutant of set: the capacity is checked before the key is looked up.
set_EvictOnUpdate(s, key, value, ttl) ==
    LET expiresAt == calculateExpiration(ttl)
        newNode == [value |-> value, expiresAt |-> expiresAt]
        s0 == IF Cardinality(DOMAIN s.cache) >= maxSize THEN evictLRU(s) ELSE s
    IN  IF key \in DOMAIN s0.cache
        THEN [s |-> moveToFront([s0 EXCEPT !.cache[key] = newNode], key), ret |-> TRUE]
        ELSE [s |-> addToFront([s0 EXCEPT !.cache = MapSet(s0.cache, key, newNode)], key),
              ret |-> TRUE]

\* Mutant of set: a full cache gives up an expired entry, when it has one,
\* before its least recently used one.
set_ExpiredFirst(s, key, value, ttl) ==
    LET expiresAt == calculateExpiration(ttl)
        newNode == [value |-> value, expiresAt |-> expiresAt]
        dead == {k \in DOMAIN s.cache : Expired(s.cache[k])}
    IN  IF key \in DOMAIN s.cache
        THEN [s |-> moveToFront([s EXCEPT !.cache[key] = newNode], key), ret |-> TRUE]
        ELSE LET s1 == IF Cardinality(DOMAIN s.cache) >= maxSize
                       THEN IF dead # {}
                            THEN delete(s, CHOOSE k \in dead : TRUE).s
                            ELSE evictLRU(s)
                       ELSE s
                 s2 == [s1 EXCEPT !.cache = MapSet(s1.cache, key, newNode)]
             IN  [s |-> addToFront(s2, key), ret |-> TRUE]

\* Mutant of set: a new key is refused, with false, when the cache is full.
set_RejectsWhenFull(s, key, value, ttl) ==
    LET expiresAt == calculateExpiration(ttl)
        newNode == [value |-> value, expiresAt |-> expiresAt]
    IN  IF key \in DOMAIN s.cache
        THEN [s |-> moveToFront([s EXCEPT !.cache[key] = newNode], key), ret |-> TRUE]
        ELSE IF Cardinality(DOMAIN s.cache) >= maxSize
        THEN [s |-> s, ret |-> FALSE]
        ELSE [s |-> addToFront([s EXCEPT !.cache = MapSet(s.cache, key, newNode)], key),
              ret |-> TRUE]

set(s, key, value, ttl) ==
    LET expiresAt == calculateExpiration(ttl)
        newNode == [value |-> value, expiresAt |-> expiresAt]
    IN  IF key \in DOMAIN s.cache
        THEN [s |-> moveToFront([s EXCEPT !.cache[key] = newNode], key), ret |-> TRUE]
        ELSE LET s1 == IF Cardinality(DOMAIN s.cache) >= maxSize THEN evictLRU(s) ELSE s
                 s2 == [s1 EXCEPT !.cache = MapSet(s1.cache, key, newNode)]
             IN  [s |-> addToFront(s2, key), ret |-> TRUE]

\* Mutant of has: an expired entry is reported absent and left stored.
has_KeepsExpired(s, key) ==
    IF key \notin DOMAIN s.cache
    THEN [s |-> s, ret |-> FALSE]
    ELSE IF Expired(s.cache[key])
    THEN [s |-> s, ret |-> FALSE]
    ELSE [s |-> s, ret |-> TRUE]

\* Mutant of has: a stored unexpired key is moved to the front, as get does.
has_Promotes(s, key) ==
    IF key \notin DOMAIN s.cache
    THEN [s |-> s, ret |-> FALSE]
    ELSE IF Expired(s.cache[key])
    THEN [s |-> delete(s, key).s, ret |-> FALSE]
    ELSE [s |-> moveToFront(s, key), ret |-> TRUE]

has(s, key) ==
    IF key \notin DOMAIN s.cache
    THEN [s |-> s, ret |-> FALSE]
    ELSE IF Expired(s.cache[key])
    THEN [s |-> delete(s, key).s, ret |-> FALSE]
    ELSE [s |-> s, ret |-> TRUE]

\* Mutant of clear: the eviction counter is left as it is.
clear_KeepsEvictions(s) ==
    [s |-> [cache |-> EmptyMap,
            next |-> [n \in Nodes |-> IF n = HEAD THEN TAIL ELSE IF n \in Keys THEN Null ELSE s.next[n]],
            prev |-> [n \in Nodes |-> IF n = TAIL THEN HEAD ELSE IF n \in Keys THEN Null ELSE s.prev[n]],
            hits |-> 0, misses |-> 0, evictions |-> s.evictions],
     ret |-> Undefined]

clear(s) ==
    [s |-> [cache |-> EmptyMap,
            next |-> [n \in Nodes |-> IF n = HEAD THEN TAIL ELSE IF n \in Keys THEN Null ELSE s.next[n]],
            prev |-> [n \in Nodes |-> IF n = TAIL THEN HEAD ELSE IF n \in Keys THEN Null ELSE s.prev[n]],
            hits |-> 0, misses |-> 0, evictions |-> 0],
     ret |-> Undefined]

\* Mutant of keys: the expired nodes it skips are deleted, as cleanup does.
keys_DeletesExpired(s) ==
    LET live == {k \in DOMAIN s.cache :
                    ~Truthy(s.cache[k].expiresAt) \/ now <= The(s.cache[k].expiresAt)}
        dead == DOMAIN s.cache \ live
    IN  [s |-> [s EXCEPT !.cache = [k \in live |-> s.cache[k]],
                         !.next = [n \in Nodes |-> IF n \in dead THEN Null ELSE s.next[n]],
                         !.prev = [n \in Nodes |-> IF n \in dead THEN Null ELSE s.prev[n]]],
         ret |-> live]

\* keys(): the keys whose node is not expired, as a set; the cache is only read.
keys(s) ==
    [s |-> s,
     ret |-> {k \in DOMAIN s.cache :
                 ~Truthy(s.cache[k].expiresAt) \/ now <= The(s.cache[k].expiresAt)}]

\* Mutant of getStats: hitRate is the share of the misses.
getStats_MissRate(s) ==
    LET total == s.hits + s.misses
    IN  [s |-> s,
         ret |-> [hits |-> s.hits, misses |-> s.misses,
                  hitRate |-> IF total > 0 THEN <<s.misses, total>> ELSE <<0, 1>>,
                  size |-> Cardinality(DOMAIN s.cache), maxSize |-> maxSize,
                  evictions |-> s.evictions]]

\* getStats(); hitRate is kept as the pair <<numerator, denominator>>; the
\* cache is only read.
getStats(s) ==
    LET total == s.hits + s.misses
    IN  [s |-> s,
         ret |-> [hits |-> s.hits, misses |-> s.misses,
                  hitRate |-> IF total > 0 THEN <<s.hits, total>> ELSE <<0, 1>>,
                  size |-> Cardinality(DOMAIN s.cache), maxSize |-> maxSize,
                  evictions |-> s.evictions]]

\* cleanup(): delete every expired node; the loop visits each key once.
RECURSIVE cleanupLoop(_, _, _)
cleanupLoop(s, todo, removed) ==
    IF todo = {}
    THEN [s |-> s, ret |-> removed]
    ELSE LET key == CHOOSE k \in todo : TRUE
         IN  IF Expired(s.cache[key])
             THEN cleanupLoop(delete(s, key).s, todo \ {key}, removed + 1)
             ELSE cleanupLoop(s, todo \ {key}, removed)

\* Mutant of cleanup: the call also resets the eviction counter.
cleanup_ResetsEvictions(s) ==
    LET r == cleanupLoop(s, DOMAIN s.cache, 0)
    IN  [s |-> [r.s EXCEPT !.evictions = 0], ret |-> r.ret]

cleanup(s) == cleanupLoop(s, DOMAIN s.cache, 0)

\* ---------------------------------------------------------- batch methods
\* A batch entry is [key, value, ttl]; a batch result keeps the code's lists.
RECURSIVE setMultipleLoop(_, _, _)
setMultipleLoop(s, entries, result) ==
    IF entries = << >>
    THEN [s |-> s, ret |-> result]
    ELSE LET entry == Head(entries)
             r == set(s, entry.key, entry.value, entry.ttl)
         IN  setMultipleLoop(r.s, Tail(entries),
                 IF r.ret
                 THEN [result EXCEPT !.success = Append(@, entry.key)]
                 ELSE [result EXCEPT !.failed = Append(@, <<entry.key, "Failed to set cache value">>)])

\* Mutant of setMultiple: the entries are taken from the last to the first.
setMultiple_Reversed(s, entries) ==
    setMultipleLoop(s, [i \in 1..Len(entries) |-> entries[Len(entries) + 1 - i]],
                    [success |-> << >>, failed |-> << >>, total |-> Len(entries)])

setMultiple(s, entries) ==
    setMultipleLoop(s, entries, [success |-> << >>, failed |-> << >>, total |-> Len(entries)])

RECURSIVE getMultipleLoop(_, _, _)
getMultipleLoop(s, ks, result) ==
    IF ks = << >>
    THEN [s |-> s, ret |-> result]
    ELSE LET key == Head(ks)
             r == get(s, key)
         IN  getMultipleLoop(r.s, Tail(ks),
                 IF r.ret # Undefined
                 THEN [result EXCEPT !.found = Append(@, <<key, r.ret>>)]
                 ELSE [result EXCEPT !.notFound = Append(@, key)])

getMultiple(s, ks) ==
    getMultipleLoop(s, ks, [found |-> << >>, notFound |-> << >>, total |-> Len(ks)])

RECURSIVE deleteMultipleLoop(_, _, _)
deleteMultipleLoop(s, ks, result) ==
    IF ks = << >>
    THEN [s |-> s, ret |-> result]
    ELSE LET key == Head(ks)
             r == delete(s, key)
         IN  deleteMultipleLoop(r.s, Tail(ks),
                 IF r.ret
                 THEN [result EXCEPT !.deleted = Append(@, key)]
                 ELSE [result EXCEPT !.notFound = Append(@, key)])

\* Mutant of deleteMultiple: a key is processed at its first occurrence only.
deleteMultiple_Dedup(s, ks) ==
    LET F[i \in 0..Len(ks)] ==
            IF i = 0 THEN << >>
            ELSE IF \E j \in 1..(i - 1) : ks[j] = ks[i] THEN F[i - 1]
            ELSE Append(F[i - 1], ks[i])
    IN  deleteMultipleLoop(s, F[Len(ks)],
                           [deleted |-> << >>, notFound |-> << >>, total |-> Len(ks)])

deleteMultiple(s, ks) ==
    deleteMultipleLoop(s, ks, [deleted |-> << >>, notFound |-> << >>, total |-> Len(ks)])

\* ------------------------------------------------------------------ calls
\* A call of a single-item method, and what it does to the cache.
GetCall(key) == [op |-> "get", key |-> key, value |-> Undefined, ttl |-> None]
SetCall(key, value, ttl) == [op |-> "set", key |-> key, value |-> value, ttl |-> ttl]
DeleteCall(key) == [op |-> "delete", key |-> key, value |-> Undefined, ttl |-> None]
HasCall(key) == [op |-> "has", key |-> key, value |-> Undefined, ttl |-> None]
ClearCall == [op |-> "clear", key |-> Null, value |-> Undefined, ttl |-> None]
CleanupCall == [op |-> "cleanup", key |-> Null, value |-> Undefined, ttl |-> None]
KeysCall == [op |-> "keys", key |-> Null, value |-> Undefined, ttl |-> None]
GetStatsCall == [op |-> "getStats", key |-> Null, value |-> Undefined, ttl |-> None]

Apply(s, call) ==
    CASE call.op = "get" -> get(s, call.key)
      [] call.op = "set" -> set(s, call.key, call.value, call.ttl)
      [] call.op = "delete" -> delete(s, call.key)
      [] call.op = "has" -> has(s, call.key)
      [] call.op = "clear" -> clear(s)
      [] call.op = "cleanup" -> cleanup(s)
      [] call.op = "keys" -> keys(s)
      [] call.op = "getStats" -> getStats(s)

\* ---------------------------------------------------------------- history
\* hist records, of the calls made so far:
\*   touched          the stored keys, the least recently touched first, a touch
\*                    being a get that hit or a set
\*   born             for each stored key, of the last set of it: its value, and
\*                    the time of the call plus its ttl argument (due) when
\*                    that argument was a positive number
\*   fullInserts      the sets of a key not stored made at size = maxSize,
\*                    since the last clear; fullInsertsEver, since construction
\*   gets             the get calls made since the last clear, each key of a
\*                    getMultiple being one; getsEver, since construction
\*   scen             how many calls of scenario A have been made, when the
\*                    calls so far are exactly its first ones; -1 otherwise
\*   ledger           when kept (on), since the last clear: the sets of a key
\*                    not stored (inserts), the deletes that returned true
\*                    (deleted), and the expired entries that get and has
\*                    met and cleanup reported (lapsed)
NoLedger == [on |-> FALSE, inserts |-> 0, deleted |-> 0, lapsed |-> 0]

Hist0 == [touched |-> << >>, born |-> EmptyMap, fullInserts |-> 0, fullInsertsEver |-> 0,
          gets |-> 0, getsEver |-> 0, scen |-> 0, ledger |-> NoLedger]

\* The ledger after the call, which found the cache s and returned r.
Account(l, s, call, r) ==
    IF ~l.on THEN l
    ELSE IF call.op = "clear" THEN [l EXCEPT !.inserts = 0, !.deleted = 0, !.lapsed = 0]
    ELSE IF call.op = "set"
    THEN [l EXCEPT !.inserts = IF call.key \notin DOMAIN s.cache THEN @ + 1 ELSE @]
    ELSE IF call.op = "delete"
    THEN [l EXCEPT !.deleted = IF r.ret THEN @ + 1 ELSE @]
    ELSE IF call.op \in {"get", "has"}
    THEN [l EXCEPT !.lapsed = IF call.key \in DOMAIN s.cache /\ Expired(s.cache[call.key])
                              THEN @ + 1 ELSE @]
    ELSE IF call.op = "cleanup" THEN [l EXCEPT !.lapsed = @ + r.ret]
    ELSE l

\* Scenario A of the specification, the first LRU test of the test suite.
ScenarioA == <<SetCall("a", "v1", None), SetCall("b", "v1", None), SetCall("c", "v1", None),
               GetCall("a"), SetCall("d", "v1", None)>>

Without(seq, key) == SelectSeq(seq, LAMBDA k : k # key)

\* The two calls are the same method with the same arguments.
SameCall(c1, c2) ==
    /\ c1.op = c2.op
    /\ c1.key = c2.key
    /\ c1.value = c2.value
    /\ c1.ttl = c2.ttl

Observe(h, s, call, r) ==
    LET stored == DOMAIN s.cache
        after == DOMAIN r.s.cache
        hit == call.op = "get" /\ r.s.hits = s.hits + 1
        touch == hit \/ call.op = "set"
        moved == IF touch THEN Append(Without(h.touched, call.key), call.key) ELSE h.touched
        full == call.op = "set" /\ call.key \notin stored /\ Cardinality(stored) = maxSize
        birth == [due |-> IF call.ttl # None /\ The(call.ttl) > 0
                          THEN Some(now + The(call.ttl)) ELSE None,
                  value |-> call.value]
    IN  [touched |-> SelectSeq(moved, LAMBDA k : k \in after),
         born |-> [k \in after |-> IF call.op = "set" /\ k = call.key THEN birth ELSE h.born[k]],
         fullInserts |-> IF call.op = "clear" THEN 0
                         ELSE IF full THEN h.fullInserts + 1 ELSE h.fullInserts,
         fullInsertsEver |-> IF full THEN h.fullInsertsEver + 1 ELSE h.fullInsertsEver,
         gets |-> IF call.op = "clear" THEN 0
                  ELSE IF call.op = "get" THEN h.gets + 1 ELSE h.gets,
         getsEver |-> IF call.op = "get" THEN h.getsEver + 1 ELSE h.getsEver,
         scen |-> IF h.scen >= 0 /\ h.scen < Len(ScenarioA)
                     /\ SameCall(call, ScenarioA[h.scen + 1])
                  THEN h.scen + 1 ELSE -1,
         ledger |-> Account(h.ledger, s, call, r)]

\* The calls one after the other, with their history.
RECURSIVE RunCalls(_, _, _)
RunCalls(s, h, calls) ==
    IF calls = << >>
    THEN [s |-> s, h |-> h]
    ELSE LET r == Apply(s, Head(calls))
         IN  RunCalls(r.s, Observe(h, s, Head(calls), r), Tail(calls))

\* ---------------------------------------------------------------- actions
\* new LRUCache({maxSize, defaultTtl})
\* The options are [maxSize, defaultTtl], each given or not. The result is
\* the error thrown, or Null with the fields of the new cache.
DEFAULT_MAX_SIZE == 1000
INVALID_MAX_SIZE == "maxSize must be greater than 0"

\* Mutant of constructor: only a negative maxSize is refused.
constructor_AcceptsZero(options) ==
    LET size == IF options.maxSize # None THEN The(options.maxSize) ELSE DEFAULT_MAX_SIZE
    IN  IF size < 0
        THEN [error |-> INVALID_MAX_SIZE, maxSize |-> size,
              defaultTtl |-> options.defaultTtl, s |-> Null]
        ELSE [error |-> Null, maxSize |-> size, defaultTtl |-> options.defaultTtl,
              s |-> [cache |-> EmptyMap,
                     next |-> [n \in Nodes |-> IF n = HEAD THEN TAIL ELSE Null],
                     prev |-> [n \in Nodes |-> IF n = TAIL THEN HEAD ELSE Null],
                     hits |-> 0, misses |-> 0, evictions |-> 0]]

constructor(options) ==
    LET size == IF options.maxSize # None THEN The(options.maxSize) ELSE DEFAULT_MAX_SIZE
    IN  IF size <= 0
        THEN [error |-> INVALID_MAX_SIZE, maxSize |-> size,
              defaultTtl |-> options.defaultTtl, s |-> Null]
        ELSE [error |-> Null, maxSize |-> size, defaultTtl |-> options.defaultTtl,
              s |-> [cache |-> EmptyMap,
                     next |-> [n \in Nodes |-> IF n = HEAD THEN TAIL ELSE Null],
                     prev |-> [n \in Nodes |-> IF n = TAIL THEN HEAD ELSE Null],
                     hits |-> 0, misses |-> 0, evictions |-> 0]]

\* A batch call in progress: its method, its input, the items it has not
\* processed yet, its result so far, the cache when it was called, and the
\* number of calls of other callers made since. No batch call: op = "idle".
Running(op, input, todo, result, from, foreign) ==
    [op |-> op, input |-> input, todo |-> todo, result |-> result, from |-> from,
     foreign |-> foreign]

NotRunning == Running("idle", << >>, << >>, Null, Null, 0)

\* simpleRateLimit has not been called: there is no middleware.
NoLimiter == [created |-> FALSE, maxRequests |-> 0, windowMs |-> 0]

\* The API server has had no request.
NoResponse == [method |-> Null, path |-> << >>, handler |-> 0, status |-> 0]

\* The cache is the one new LRUCache(options) returns, used by callers that
\* the host serializes per pol; there is none when the constructor throws.
ConstructedWith(options, pol, h0) ==
    \E r \in {constructor(options)} :
        /\ policy = pol
        /\ run = NotRunning
        /\ r.error = Null
        /\ maxSize = r.maxSize
        /\ defaultTtl = r.defaultTtl
        /\ cache = r.s.cache
        /\ next = r.s.next
        /\ prev = r.s.prev
        /\ hits = r.s.hits
        /\ misses = r.s.misses
        /\ evictions = r.s.evictions
        /\ now = Now0
        /\ hist = h0
        /\ requestCounts = EmptyMap
        /\ limiter = NoLimiter
        /\ answered = << >>
        /\ response = NoResponse

ConstructedUnder(options, pol) == ConstructedWith(options, pol, Hist0)

\* Node.js runs each call to its end before the next one.
Constructed(options) == ConstructedUnder(options, "operation")

InitWith(caps, dttls) ==
    \E c \in caps, d \in dttls : Constructed([maxSize |-> Some(c), defaultTtl |-> d])

\* The counters stay within the model's bounds.
Bounded(s, h) ==
    /\ s.hits <= MaxCount
    /\ s.misses <= MaxCount
    /\ s.evictions <= MaxEvict
    /\ h.fullInsertsEver <= MaxEvict
    /\ h.getsEver <= MaxGets
    /\ h.ledger.inserts <= MaxInserts

Store(s, h) ==
    /\ Bounded(s, h)
    /\ cache' = s.cache
    /\ next' = s.next
    /\ prev' = s.prev
    /\ hits' = s.hits
    /\ misses' = s.misses
    /\ evictions' = s.evictions
    /\ hist' = h
    /\ UNCHANGED <<maxSize, defaultTtl, now, policy, requestCounts, limiter, answered>>

\* Mutant of Serialized: a batch method awaits between its items, so that
\* the calls of other callers run before it has returned.
Serialized_AwaitBetweenItems == TRUE

\* The methods are synchronous: a call of another caller starts only when
\* no batch call is in progress.
Serialized == run.op = "idle"

\* A call that is not an item of the batch in progress.
Commit(s, h) ==
    /\ Serialized \/ (policy = "item" /\ run.foreign < MaxForeign)
    /\ Store(s, h)
    /\ run' = IF run.op = "idle" THEN run ELSE [run EXCEPT !.foreign = @ + 1]
    /\ UNCHANGED response

Call(call) ==
    \E r \in {Apply(This, call)} :
        \E h \in {Observe(hist, This, call, r)} : Commit(r.s, h)

Get(key) == Call(GetCall(key))

Set(key, value, ttl) == Call(SetCall(key, value, ttl))

Delete(key) == Call(DeleteCall(key))

Has(key) == Call(HasCall(key))

Clear == Call(ClearCall)

Cleanup == Call(CleanupCall)

KeysOp == Call(KeysCall)

GetStats == Call(GetStatsCall)

SetMultiple(entries) ==
    LET calls == [i \in 1..Len(entries) |->
                     SetCall(entries[i].key, entries[i].value, entries[i].ttl)]
    IN  \E r \in {setMultiple(This, entries)} :
            \E h \in {RunCalls(This, hist, calls).h} : Commit(r.s, h)

GetMultiple(ks) ==
    LET calls == [i \in 1..Len(ks) |-> GetCall(ks[i])]
    IN  \E r \in {getMultiple(This, ks)} :
            \E h \in {RunCalls(This, hist, calls).h} : Commit(r.s, h)

DeleteMultiple(ks) ==
    LET calls == [i \in 1..Len(ks) |-> DeleteCall(ks[i])]
    IN  \E r \in {deleteMultiple(This, ks)} :
            \E h \in {RunCalls(This, hist, calls).h} : Commit(r.s, h)

\* Mutant of Tick: the clock is set back by a millisecond.
Tick_Backwards ==
    /\ now > Now0 - MaxTicks
    /\ now' = now - 1
    /\ UNCHANGED <<maxSize, defaultTtl, cache, next, prev, hits, misses, evictions, hist,
                   run, policy, requestCounts, limiter, answered, response>>

\* A millisecond passes.
Tick ==
    /\ now < Now0 + MaxTicks
    /\ now' = now + 1
    /\ UNCHANGED <<maxSize, defaultTtl, cache, next, prev, hits, misses, evictions, hist,
                   run, policy, requestCounts, limiter, answered, response>>

\* The batch methods one item at a time: the call, with its empty result,
\* one turn of its loop, and its return.
EmptyResult(op, input) ==
    CASE op = "setMultiple" -> [success |-> << >>, failed |-> << >>, total |-> Len(input)]
      [] op = "getMultiple" -> [found |-> << >>, notFound |-> << >>, total |-> Len(input)]
      [] op = "deleteMultiple" -> [deleted |-> << >>, notFound |-> << >>, total |-> Len(input)]

LoopTurn(op, s, item, result) ==
    CASE op = "setMultiple" -> setMultipleLoop(s, <<item>>, result)
      [] op = "getMultiple" -> getMultipleLoop(s, <<item>>, result)
      [] op = "deleteMultiple" -> deleteMultipleLoop(s, <<item>>, result)

ItemCall(op, item) ==
    CASE op = "setMultiple" -> SetCall(item.key, item.value, item.ttl)
      [] op = "getMultiple" -> GetCall(item)
      [] op = "deleteMultiple" -> DeleteCall(item)

BatchCall(op, input) ==
    /\ run.op = "idle"
    /\ run' = Running(op, input, input, EmptyResult(op, input), This, 0)
    /\ UNCHANGED <<maxSize, defaultTtl, cache, next, prev, hits, misses, evictions, now,
                   hist, policy, requestCounts, limiter, answered, response>>

BatchItem ==
    /\ run.op # "idle"
    /\ run.todo # << >>
    /\ \E r \in {LoopTurn(run.op, This, Head(run.todo), run.result)} :
           \E h \in {Observe(hist, This, ItemCall(run.op, Head(run.todo)), r)} :
               /\ Store(r.s, h)
               /\ run' = [run EXCEPT !.todo = Tail(@), !.result = r.ret]
               /\ UNCHANGED response

BatchReturn ==
    /\ run.op # "idle"
    /\ run.todo = << >>
    /\ run' = NotRunning
    /\ UNCHANGED <<maxSize, defaultTtl, cache, next, prev, hits, misses, evictions, now,
                   hist, policy, requestCounts, limiter, answered, response>>

\* Sequences of at most MaxBatch elements of S.
Batches(S) == UNION {[1..n -> S] : n \in 0..MaxBatch}

\* ---------------------------------------------------------- specifications
\* Spec: the single-item methods with every kind of ttl and value, the clock
\* running, capacities 1..MaxCap and one key more than fits.
\* A default ttl is given to the smallest cache only.
Init == InitWith(1..MaxCap, {None}) \/ InitWith({1}, DefaultTtls)

Next ==
    \/ \E k \in SmallKeys : Get(k)
    \/ \E k \in SmallKeys, v \in Values, t \in TTLs : Set(k, v, t)
    \/ \E k \in SmallKeys : Delete(k)
    \/ \E k \in SmallKeys : Has(k)
    \/ Clear
    \/ Cleanup
    \/ KeysOp
    \/ GetStats
    \/ Tick

Spec == Init /\ [][Next]_vars

\* SpecTest: the cache of the test suite (capacity 3, no ttl) with one key
\* more than fits, and the single-item methods.
InitTest == InitWith({TestCap}, {None})

NextTest ==
    \/ \E k \in TestKeys : Get(k)
    \/ \E k \in TestKeys : Set(k, "v1", None)
    \/ \E k \in TestKeys : Delete(k)
    \/ \E k \in TestKeys : Has(k)
    \/ Clear
    \/ Cleanup
    \/ KeysOp
    \/ GetStats

SpecTest == InitTest /\ [][NextTest]_vars

\* SpecBatch: every method, the batch methods included, on entries with and
\* without a ttl, the clock running.
BatchEntries == [key : SmallKeys, value : {"v1"}, ttl : {None, Some(1)}]

InitBatch == InitWith(1..MaxCap, {None})

NextBatch ==
    \/ \E k \in SmallKeys : Get(k)
    \/ \E e \in BatchEntries : Set(e.key, e.value, e.ttl)
    \/ \E k \in SmallKeys : Delete(k)
    \/ \E k \in SmallKeys : Has(k)
    \/ Clear
    \/ Cleanup
    \/ KeysOp
    \/ GetStats
    \/ \E es \in Batches(BatchEntries) : SetMultiple(es)
    \/ \E ks \in Batches(SmallKeys) : GetMultiple(ks)
    \/ \E ks \in Batches(SmallKeys) : DeleteMultiple(ks)
    \/ Tick

SpecBatch == InitBatch /\ [][NextBatch]_vars

\* SpecLedger: SpecBatch with the ledger of insertions and removals kept.
InitLedger ==
    \E c \in 1..MaxCap :
        ConstructedWith([maxSize |-> Some(c), defaultTtl |-> None], "operation",
                        [Hist0 EXCEPT !.ledger.on = TRUE])

SpecLedger == InitLedger /\ [][NextBatch]_vars

\* SpecNew: caches constructed with a maxSize that is valid, invalid or
\* omitted, and the single-item methods without ttl.
CtorOptions == [maxSize : {None, Some(-1), Some(0), Some(1)}, defaultTtl : {None}]

InitNew == \E o \in CtorOptions : Constructed(o)

NextNew ==
    \/ \E k \in SmallKeys : Get(k)
    \/ \E k \in SmallKeys : Set(k, "v1", None)
    \/ \E k \in SmallKeys : Delete(k)
    \/ \E k \in SmallKeys : Has(k)
    \/ Clear
    \/ Cleanup
    \/ KeysOp
    \/ GetStats

SpecNew == InitNew /\ [][NextNew]_vars

\* SpecSerial: several callers, every call running to its end before the
\* next one starts, the batch methods seen item by item.
\* SpecItems: the same callers when only each item of a batch is atomic, the
\* single-item calls of other callers running between the items.
PlainEntries == [key : SmallKeys, value : {"v1"}, ttl : {None}]

InitSerial ==
    \E c \in 1..MaxCap : ConstructedUnder([maxSize |-> Some(c), defaultTtl |-> None], "operation")

InitItems ==
    \E c \in 1..MaxCap : ConstructedUnder([maxSize |-> Some(c), defaultTtl |-> None], "item")

NextCallers ==
    \/ \E k \in SmallKeys : Get(k)
    \/ \E k \in SmallKeys : Set(k, "v1", None)
    \/ \E k \in SmallKeys : Delete(k)
    \/ \E k \in SmallKeys : Has(k)
    \/ Clear
    \/ Cleanup
    \/ \E es \in Batches(PlainEntries) : BatchCall("setMultiple", es)
    \/ \E ks \in Batches(SmallKeys) : BatchCall("getMultiple", ks)
    \/ \E ks \in Batches(SmallKeys) : BatchCall("deleteMultiple", ks)
    \/ BatchItem
    \/ BatchReturn

SpecSerial == InitSerial /\ [][NextCallers]_vars

SpecItems == InitItems /\ [][NextCallers]_vars

\* ------------------------------------------------------------- API server
\* const appCache = new LRUCache({maxSize: 10000, defaultTtl: 10 * 60 * 1000})
appCache == [maxSize |-> Some(10000), defaultTtl |-> Some(10 * 60 * 1000)]

\* A path is the sequence of its segments. The routes of app, in the order
\* of their registration; a segment ":key" is a route parameter.
Route(method, path) == [method |-> method, path |-> path]

Routes ==
    <<Route("GET", << >>),
      Route("GET", <<"api", "health">>),
      Route("GET", <<"api", "cache", "stats">>),
      Route("GET", <<"api", "cache", "keys">>),
      Route("GET", <<"api", "cache", ":key">>),
      Route("POST", <<"api", "cache">>),
      Route("PUT", <<"api", "cache", ":key">>),
      Route("DELETE", <<"api", "cache", ":key">>),
      Route("DELETE", <<"api", "cache">>),
      Route("POST", <<"api", "cache", "batch">>),
      Route("GET", <<"api", "cache", "batch">>),
      Route("DELETE", <<"api", "cache", "batch">>),
      Route("POST", <<"api", "cache", "cleanup">>)>>

\* The route is for the method and its pattern matches the path: a
\* parameter matches any one segment.
Matches(route, method, path) ==
    /\ route.method = method
    /\ Len(route.path) = Len(path)
    /\ \A i \in 1..Len(path) : route.path[i] = ":key" \/ route.path[i] = path[i]

\* Express gives the request to the first registered route that matches; no
\* handler of app calls next(). 0: no route matches.
Dispatch(method, path) ==
    LET matching == {i \in 1..Len(Routes) : Matches(Routes[i], method, path)}
    IN  IF matching = {} THEN 0
        ELSE CHOOSE i \in matching : \A j \in matching : i <= j

\* A request: req.params.key is path[3]; key, value, ttl and entries are
\* fields of req.body; keys is req.query.keys, split at the commas, of a GET
\* and req.body.keys otherwise. entries and keys are None when not given.
Req(method, path, key, value, ttl, entries, ks) ==
    [method |-> method, path |-> path, key |-> key, value |-> value, ttl |-> ttl,
     entries |-> entries, keys |-> ks]

\* What a handler does: the cache afterwards, the status of its response
\* and the calls it made on appCache.
Respond(s, status, calls) == [s |-> s, status |-> status, calls |-> calls]

\* The handler of Routes[route], run for req on the cache s.
Handle(route, s, req) ==
    CASE route = 0 -> Respond(s, 404, << >>)
      [] route = 1 -> Respond(s, 200, << >>)
      [] route \in {2, 3} -> Respond(getStats(s).s, 200, <<GetStatsCall>>)
      [] route = 4 -> Respond(keys(s).s, 200, <<KeysCall>>)
      [] route = 5 ->
            LET r == get(s, req.path[3])
            IN  Respond(r.s, IF r.ret = Undefined THEN 404 ELSE 200, <<GetCall(req.path[3])>>)
      [] route = 6 ->
            IF req.key = Undefined \/ req.value = Undefined
            THEN Respond(s, 400, << >>)
            ELSE LET r == set(s, req.key, req.value, req.ttl)
                 IN  Respond(r.s, IF r.ret THEN 201 ELSE 500,
                             <<SetCall(req.key, req.value, req.ttl)>>)
      [] route = 7 ->
            IF req.value = Undefined
            THEN Respond(s, 400, << >>)
            ELSE LET h == has(s, req.path[3])
                     r == set(h.s, req.path[3], req.value, req.ttl)
                 IN  IF ~h.ret
                     THEN Respond(h.s, 404, <<HasCall(req.path[3])>>)
                     ELSE Respond(r.s, IF r.ret THEN 200 ELSE 500,
                                  <<HasCall(req.path[3]),
                                    SetCall(req.path[3], req.value, req.ttl)>>)
      [] route = 8 ->
            LET r == delete(s, req.path[3])
            IN  Respond(r.s, IF r.ret THEN 200 ELSE 404, <<DeleteCall(req.path[3])>>)
      [] route = 9 -> Respond(clear(s).s, 200, <<ClearCall>>)
      [] route = 10 ->
            IF req.entries = None
            THEN Respond(s, 400, << >>)
            ELSE LET entries == The(req.entries)
                 IN  IF entries = << >>
                        \/ \E i \in 1..Len(entries) :
                               entries[i].key = Undefined \/ entries[i].value = Undefined
                     THEN Respond(s, 400, << >>)
                     ELSE Respond(setMultiple(s, entries).s, 201,
                                  [i \in 1..Len(entries) |->
                                      SetCall(entries[i].key, entries[i].value, entries[i].ttl)])
      [] route = 11 ->
            IF req.keys = None \/ req.keys = Some(<< >>)
            THEN Respond(s, 400, << >>)
            ELSE Respond(getMultiple(s, The(req.keys)).s, 200,
                         [i \in 1..Len(The(req.keys)) |-> GetCall(The(req.keys)[i])])
      [] route = 12 ->
            IF req.keys = None \/ req.keys = Some(<< >>)
            THEN Respond(s, 400, << >>)
            ELSE Respond(deleteMultiple(s, The(req.keys)).s, 200,
                         [i \in 1..Len(The(req.keys)) |-> DeleteCall(The(req.keys)[i])])
      [] route = 13 -> Respond(cleanup(s).s, 200, <<CleanupCall>>)

\* The server receives req and answers it.
Request(req) ==
    \E route \in {Dispatch(req.method, req.path)} :
        \E r \in {Handle(route, This, req)} :
            /\ Serialized
            /\ Store(r.s, RunCalls(This, hist, r.calls).h)
            /\ response' = [method |-> req.method, path |-> req.path,
                            handler |-> route, status |-> r.status]
            /\ UNCHANGED run

\* SpecApi: the API server of main.ts and its cache, with requests of every
\* method for the paths of the endpoint listing, a key "a", the key "batch"
\* and a path without route.
Methods == {"GET", "POST", "PUT", "DELETE"}

Paths ==
    {<< >>, <<"api", "health">>, <<"api", "cache">>, <<"api", "cache", "stats">>,
     <<"api", "cache", "keys">>, <<"api", "cache", "cleanup">>, <<"api", "cache", "batch">>,
     <<"api", "cache", "a">>, <<"api", "other">>}

ApiEntries == [key : ApiKeys \cup {Undefined}, value : Values, ttl : {None}]

Requests ==
    {Req(m, p, e.key, e.value, e.ttl, None, None) :
        m \in Methods, p \in Paths, e \in ApiEntries}
    \cup {Req(m, <<"api", "cache", "batch">>, Undefined, Undefined, None, es, ks) :
             m \in Methods,
             es \in {None, Some(<< >>)} \cup {Some(<<e>>) : e \in ApiEntries},
             ks \in {None} \cup {Some(b) : b \in Batches(ApiKeys)}}

InitApi == Constructed(appCache)

NextApi == \E req \in Requests : Request(req)

SpecApi == InitApi /\ [][NextApi]_vars

\* ----------------------------------------------------------- rate limiting
\* const clientId = req.ip || "unknown"
ClientId(ip) == IF ip = Undefined THEN "unknown" ELSE ip

\* Mutant of simpleRateLimit: the request that reaches the limit is refused.
simpleRateLimit_RefusesAtLimit(counts, maxRequests, windowMs, ip) ==
    LET clientId == ClientId(ip)
        fresh == clientId \notin DOMAIN counts \/ now > counts[clientId].resetTime
        clientData == IF fresh THEN [count |-> 0, resetTime |-> now + windowMs]
                      ELSE counts[clientId]
        counted == [clientData EXCEPT !.count = @ + 1]
    IN  [requestCounts |-> MapSet(counts, clientId, counted),
         status |-> IF counted.count >= maxRequests THEN Some(429) ELSE None,
         next |-> counted.count < maxRequests]

\* The middleware that simpleRateLimit(maxRequests, windowMs) returns, called
\* for a request from ip when the map is counts: the map afterwards, the
\* status it answers with, if any, and whether it calls next().
simpleRateLimit(counts, maxRequests, windowMs, ip) ==
    LET clientId == ClientId(ip)
        fresh == clientId \notin DOMAIN counts \/ now > counts[clientId].resetTime
        clientData == IF fresh THEN [count |-> 0, resetTime |-> now + windowMs]
                      ELSE counts[clientId]
        counted == [clientData EXCEPT !.count = @ + 1]
    IN  [requestCounts |-> MapSet(counts, clientId, counted),
         status |-> IF counted.count > maxRequests THEN Some(429) ELSE None,
         next |-> counted.count <= maxRequests]

\* simpleRateLimit(maxRequests, windowMs) is called, each argument given or
\* left to its default, and its middleware installed.
CreateLimiter(maxRequests, windowMs) ==
    /\ ~limiter.created
    /\ limiter' = [created |-> TRUE,
                   maxRequests |-> IF maxRequests = None THEN 100 ELSE The(maxRequests),
                   windowMs |-> IF windowMs = None THEN 60000 ELSE The(windowMs)]
    /\ UNCHANGED <<maxSize, defaultTtl, cache, next, prev, hits, misses, evictions, now,
                   hist, run, policy, requestCounts, answered, response>>

\* A request from ip goes through the middleware.
RateLimit(ip) ==
    /\ limiter.created
    /\ Len(answered) < MaxAnswered
    /\ \E r \in {simpleRateLimit(requestCounts, limiter.maxRequests, limiter.windowMs, ip)} :
           /\ requestCounts' = r.requestCounts
           /\ answered' = Append(answered, [clientId |-> ClientId(ip), at |-> now,
                                            status |-> r.status, next |-> r.next])
    /\ UNCHANGED <<maxSize, defaultTtl, cache, next, prev, hits, misses, evictions, now,
                   hist, run, policy, limiter, response>>

\* SpecRate: one rate limiting middleware, requests with and without req.ip,
\* the clock running.
LimiterOptions == [maxRequests : {None, Some(1), Some(2)}, windowMs : {None, Some(1)}]

Ips == {"10.0.0.1", Undefined}

InitRate == Constructed([maxSize |-> Some(1), defaultTtl |-> None])

NextRate ==
    \/ \E o \in LimiterOptions : CreateLimiter(o.maxRequests, o.windowMs)
    \/ \E ip \in Ips : RateLimit(ip)
    \/ Tick

SpecRate == InitRate /\ [][NextRate]_vars

\* ------------------------------------------------------------- properties
\* The recency list of s: the nodes met from head.next on, the most recent
\* first, up to the tail sentinel. A walk that meets null, or does not end
\* within the number of nodes, ends with Null.
RECURSIVE ListFrom(_, _, _)
ListFrom(s, node, fuel) ==
    IF node = TAIL THEN << >>
    ELSE IF node = Null \/ fuel = 0 THEN <<Null>>
    ELSE <<node>> \o ListFrom(s, s.next[node], fuel - 1)

ListOf(s) == ListFrom(s, s.next[HEAD], Cardinality(Nodes))

Range(seq) == {seq[i] : i \in 1..Len(seq)}

\* The sequence seq read backwards.
Reverse(seq) == [i \in 1..Len(seq) |-> seq[Len(seq) + 1 - i]]

\* C1: after any sequence of set, get, has, delete, cleanup, clear,
\* setMultiple, getMultiple and deleteMultiple, getStats().size is at most
\* the capacity.
C1_SizeAtMostCapacity == getStats(This).ret.size <= maxSize

\* C1 witness: a full cache that has already evicted, with a get made.
C1_Witness == getStats(This).ret.size = maxSize /\ evictions >= 1 /\ hits + misses >= 1

\* C2: a set of a new key at size >= capacity removes exactly one other entry,
\* the stored key touched least recently (touches being gets that hit and
\* sets); and scenario A leaves a, c and d stored.
C2_EvictsLeastRecentlyTouched ==
    /\ \A k \in TestKeys \ DOMAIN cache :
           Cardinality(DOMAIN cache) >= maxSize =>
               DOMAIN set(This, k, "v1", None).s.cache
                   = (DOMAIN cache \ {Head(hist.touched)}) \cup {k}
    /\ hist.scen = Len(ScenarioA) => DOMAIN cache = {"a", "c", "d"}

\* C2 witness: scenario A has just been run, its last set having evicted.
C2_Witness == hist.scen = Len(ScenarioA) /\ evictions = 1

\* C3: the recency list holds exactly the keys of the map, each once.
C3_ListMatchesMap ==
    /\ Range(ListOf(This)) = DOMAIN cache
    /\ Len(ListOf(This)) = Cardinality(DOMAIN cache)

\* C3 witness: two nodes are listed after an eviction and a missed get.
C3_Witness == Len(ListOf(This)) = 2 /\ evictions >= 1 /\ misses >= 1

\* The sets of the keys js one after the other, each of a key that is not
\* stored when it is set (ok), with the entries each set removed (victims).
RECURSIVE InsertNew(_, _, _)
InsertNew(s, js, victims) ==
    IF js = << >> THEN [ok |-> TRUE, s |-> s, victims |-> victims]
    ELSE IF Head(js) \in DOMAIN s.cache THEN [ok |-> FALSE, s |-> s, victims |-> victims]
    ELSE LET s1 == set(s, Head(js), "v1", None).s
             lost == DOMAIN s.cache \ DOMAIN s1.cache
         IN  InsertNew(s1, Tail(js), IF lost = {} THEN victims ELSE Append(victims, lost))

\* The sequences of n distinct elements of S.
DistinctSeqs(S, n) == {js \in [1..n -> S] : \A i, j \in 1..n : i < j => js[i] # js[j]}

\* After get(k) or set(k, v) of a stored, unexpired key k, inserting at most
\* inserts other distinct new keys keeps k stored, and the entries removed are
\* the keys touched least recently before k was promoted, the oldest first.
PromotedSurvives(inserts) ==
    \A k \in DOMAIN cache : ~Expired(cache[k]) =>
        \A call \in {GetCall(k), SetCall(k, "v1", None)} :
            \A n \in 0..inserts : \A js \in DistinctSeqs(TestKeys \ {k}, n) :
                LET promoted == Apply(This, call).s
                    older == Without(hist.touched, k)
                    r == InsertNew(promoted, js, << >>)
                IN  r.ok =>
                        /\ k \in DOMAIN r.s.cache
                        /\ Len(r.victims) <= Len(older)
                        /\ r.victims = [i \in 1..Len(r.victims) |-> {older[i]}]

\* C4 (as amended): after get(k) or set(k, v) of a stored, unexpired key k,
\* inserting up to capacity - 1 other distinct new keys does not evict k, and
\* the keys evicted are the least recently touched ones before the promotion.
C4_PromotedSurvivesUnderCapacity == PromotedSurvives(maxSize - 1)

\* C4 as claimed: inserting capacity other distinct new keys does not evict k.
C4_PromotedSurvivesCapacity == PromotedSurvives(maxSize)

\* C4 witness: a full cache whose most recent touch was a get hit, so that
\* every further insert evicts.
C4_Witness ==
    /\ Cardinality(DOMAIN cache) = maxSize
    /\ hits >= 1
    /\ hist.touched # << >>
    /\ hist.touched[Len(hist.touched)] = ListOf(This)[1]
    /\ hist.born[ListOf(This)[1]].value = "v1"

\* C5: get(k) misses on a key not stored (misses + 1, nothing else changes),
\* removes a stored key with now > expiresAt (misses + 1, no eviction, no
\* hit), and otherwise makes k the most recent, with hits + 1, misses
\* unchanged and the value of the last set(k, ...) returned.
C5_GetOutcomes ==
    \A k \in SmallKeys :
        LET r == get(This, k)
        IN  IF k \notin DOMAIN cache
            THEN r.ret = Undefined /\ r.s = [This EXCEPT !.misses = @ + 1]
            ELSE IF cache[k].expiresAt # None /\ now > The(cache[k].expiresAt)
            THEN /\ r.ret = Undefined
                 /\ r.s.cache = MapDelete(cache, k)
                 /\ ListOf(r.s) = Without(ListOf(This), k)
                 /\ r.s.misses = misses + 1
                 /\ r.s.evictions = evictions
                 /\ r.s.hits = hits
            ELSE /\ r.ret = hist.born[k].value
                 /\ ListOf(r.s) = <<k>> \o Without(ListOf(This), k)
                 /\ r.s.hits = hits + 1
                 /\ r.s.misses = misses

\* C5 witness: gets have hit and missed, and the three cases are at hand: a
\* key not stored, a stored expired key and a stored valid key with a value.
C5_Witness ==
    /\ hits >= 1 /\ misses >= 1
    /\ \E k1 \in SmallKeys \ DOMAIN cache : \E k2, k3 \in DOMAIN cache :
           /\ cache[k2].expiresAt # None /\ now > The(cache[k2].expiresAt)
           /\ ~Expired(cache[k3]) /\ cache[k3].value = "v1" /\ ListOf(This)[1] # k3

\* C6: an entry stored by set(k, v, ttl = T) at time t0 with T > 0, and not
\* set or removed since, is returned by get and reported by has at every time
\* t <= t0 + T, and is absent for both at every time t > t0 + T.
C6_ValidUntilExpiry ==
    \A k \in DOMAIN hist.born : hist.born[k].due # None =>
        IF now <= The(hist.born[k].due)
        THEN get(This, k).ret = hist.born[k].value /\ has(This, k).ret = TRUE
        ELSE get(This, k).ret = Undefined /\ has(This, k).ret = FALSE

\* C6 witness: one entry is at its expiry instant exactly and another one
\* is past it.
C6_Witness ==
    \E k1, k2 \in DOMAIN hist.born :
        /\ hist.born[k1].due = Some(now) /\ hist.born[k1].value = "v1"
        /\ hist.born[k2].due # None /\ now > The(hist.born[k2].due)

\* ttl ?? defaultTtl
EffectiveTtl(ttl) == IF ttl # None THEN ttl ELSE defaultTtl

\* The expiresAt that set(key, value, ttl) stores.
StoredExpiry(key, value, ttl) == set(This, key, value, ttl).s.cache[key].expiresAt

\* C7 as claimed: expiresAt = now + (ttl ?? defaultTtl) for every given value
\* >= 0, and no expiration only when neither ttl nor defaultTtl is given.
C7_ExpiryForEveryGivenTtl ==
    \A k \in SmallKeys, v \in Values, t \in TTLs :
        LET e == EffectiveTtl(t)
            x == StoredExpiry(k, v, t)
        IN  /\ (e # None /\ The(e) >= 0) => x = Some(now + The(e))
            /\ x = None <=> e = None

\* C7 (as amended): expiresAt = now + (ttl ?? defaultTtl) when that value is
\* given and > 0; no expiration when neither is given or the value is 0.
C7_ExpiryForPositiveTtl ==
    \A k \in SmallKeys, v \in Values, t \in TTLs :
        LET e == EffectiveTtl(t)
            x == StoredExpiry(k, v, t)
        IN  /\ (e # None /\ The(e) > 0) => x = Some(now + The(e))
            /\ x = None <=> (e = None \/ e = Some(0))

\* C7 witness: a cache with a positive default ttl holds an entry without
\* expiration (set with ttl 0) after holding one that expired.
C7_Witness ==
    /\ defaultTtl = Some(1)
    /\ misses >= 1
    /\ \E k \in DOMAIN cache : cache[k].expiresAt = None

\* C8: a set with an invalid ttl (zero or negative) stores an entry that
\* never expires: has reports it and cleanup keeps it.
C8_InvalidTtlNeverExpires ==
    \A k \in SmallKeys, v \in Values, t \in {Some(0), Some(-1)} :
        LET s1 == set(This, k, v, t).s
        IN  /\ has(s1, k).ret = TRUE
            /\ k \in DOMAIN cleanup(s1).s.cache

\* C9: set(k, v, ttl) on a stored key replaces its value and expiration,
\* makes k the most recent, keeps the size, and evicts nothing.
C9_SetOnStoredKey ==
    \A k \in DOMAIN cache, v \in Values, t \in TTLs :
        LET r == set(This, k, v, t)
            e == EffectiveTtl(t)
        IN  /\ r.s.cache[k].value = v
            /\ r.s.cache[k].expiresAt
                   = IF e = None \/ e = Some(0) THEN None ELSE Some(now + The(e))
            /\ ListOf(r.s) = <<k>> \o Without(ListOf(This), k)
            /\ DOMAIN r.s.cache = DOMAIN cache
            /\ \A j \in DOMAIN cache \ {k} : r.s.cache[j] = cache[j]
            /\ r.s.evictions = evictions

\* C9 witness: a full cache of two entries, the older one holding a value
\* and an expiration that a set would replace.
C9_Witness ==
    /\ Cardinality(DOMAIN cache) = maxSize /\ maxSize = 2
    /\ LET k == ListOf(This)[2]
       IN  cache[k].value = "v1" /\ cache[k].expiresAt # None

C11_GetsSinceClear == hits + misses = hist.gets

\* C11 as claimed: hits + misses equals the number of get calls made, after
\* any sequence of operations, clear included.
C11_GetsEver == hits + misses = hist.getsEver

\* C11 witness: a get was made, the cache was cleared, and two more gets
\* were made, a hit and a miss.
C11_Witness == hist.getsEver = 3 /\ hist.gets = 2 /\ hits = 1 /\ misses = 1

\* C12: getStats() changes no state and returns hits, misses, evictions,
\* size = the number of stored entries, maxSize, and hitRate =
\* hits / (hits + misses) when hits + misses > 0 and 0 otherwise, so that
\* 0 <= hitRate <= 1.
C12_GetStats ==
    LET r == getStats(This)
        num == r.ret.hitRate[1]
        den == r.ret.hitRate[2]
    IN  /\ r.s = This
        /\ r.ret.hits = hits
        /\ r.ret.misses = misses
        /\ r.ret.evictions = evictions
        /\ r.ret.size = Cardinality(DOMAIN cache)
        /\ r.ret.maxSize = maxSize
        /\ den > 0
        /\ IF hits + misses > 0 THEN num * (hits + misses) = hits * den ELSE num = 0
        /\ 0 <= num /\ num <= den

\* C12 witness: a cache with hits, more misses than hits, an eviction and
\* stored entries.
C12_Witness ==
    /\ hits >= 1 /\ misses > hits /\ evictions >= 1
    /\ Cardinality(DOMAIN cache) = maxSize

\* C13: across every operation other than clear, each of hits, misses and
\* evictions is at least what it was before the operation.
C13_CountersOnlyLoweredByClear ==
    [][Clear \/ (hits' >= hits /\ misses' >= misses /\ evictions' >= evictions)]_vars

\* C13 witness: the three counters have risen again after a clear that
\* followed a get.
C13_Witness ==
    /\ hits >= 1 /\ misses >= 1 /\ evictions >= 1
    /\ hist.getsEver > hist.gets

\* C14: delete(k) of a key not stored returns false and changes nothing; of
\* a stored key, two calls in a row return true and then false, and the
\* second leaves the state the first produced.
C14_DeleteTwice ==
    \A k \in TestKeys :
        LET r1 == delete(This, k)
            r2 == delete(r1.s, k)
        IN  IF k \notin DOMAIN cache
            THEN r1.ret = FALSE /\ r1.s = This
            ELSE r1.ret = TRUE /\ r2.ret = FALSE /\ r2.s = r1.s

\* C14 witness: a cache without ttl that was filled to its capacity holds
\* fewer entries than that, and at least one: a delete has removed a key.
C14_Witness ==
    /\ defaultTtl = None /\ hist.fullInserts = 1
    /\ Cardinality(DOMAIN cache) < maxSize
    /\ Cardinality(DOMAIN cache) >= 1

\* The keys of s in the order in which evictions alone would remove them.
RECURSIVE EvictionOrder(_, _)
EvictionOrder(s, fuel) ==
    IF DOMAIN s.cache = {} \/ fuel = 0 THEN << >>
    ELSE <<s.prev[TAIL]>> \o EvictionOrder(evictLRU(s), fuel - 1)

\* C15: delete(k) of a stored key removes only k: the counters are
\* unchanged, every other stored key keeps its value and expiration, the
\* remaining keys keep their relative recency order, and evictions remove
\* them in the order they would have had without k.
C15_DeleteRemovesOnlyKey ==
    \A k \in DOMAIN cache :
        LET r == delete(This, k)
        IN  /\ r.s.hits = hits /\ r.s.misses = misses /\ r.s.evictions = evictions
            /\ DOMAIN r.s.cache = DOMAIN cache \ {k}
            /\ \A j \in DOMAIN cache \ {k} : r.s.cache[j] = cache[j]
            /\ ListOf(r.s) = Without(ListOf(This), k)
            /\ EvictionOrder(r.s, Cardinality(Nodes))
                   = Without(EvictionOrder(This, Cardinality(Nodes)), k)

\* C15 witness: a cache filled to capacity 3 holds two keys after a delete,
\* the older of them promoted by a hit before.
C15_Witness ==
    /\ maxSize = 3 /\ hist.fullInserts = 1 /\ hits >= 1
    /\ Cardinality(DOMAIN cache) = 2

\* C16: has(k) leaves hits, misses, evictions and the recency order of the
\* stored keys as they are. On a stored key that is not expired it returns
\* true and changes nothing, so that the next eviction takes the same
\* victim; on a stored expired key it removes that entry only and returns
\* false; on a key not stored it returns false and changes nothing.
C16_HasLeavesOrderAndCounters ==
    \A k \in SmallKeys :
        LET r == has(This, k)
            stored == k \in DOMAIN cache
            expired == stored /\ cache[k].expiresAt # None /\ now > The(cache[k].expiresAt)
        IN  /\ r.s.hits = hits /\ r.s.misses = misses /\ r.s.evictions = evictions
            /\ ListOf(r.s) = IF expired THEN Without(ListOf(This), k) ELSE ListOf(This)
            /\ (stored /\ ~expired) =>
                   /\ r.ret = TRUE
                   /\ r.s = This
                   /\ evictLRU(r.s) = evictLRU(This)
            /\ expired =>
                   /\ r.ret = FALSE
                   /\ DOMAIN r.s.cache = DOMAIN cache \ {k}
                   /\ \A j \in DOMAIN cache \ {k} : r.s.cache[j] = cache[j]
            /\ ~stored => (r.ret = FALSE /\ r.s = This)

\* C16 witness: a full cache of two entries, the older one not expired and
\* the newer one expired.
C16_Witness ==
    /\ maxSize = 2 /\ Cardinality(DOMAIN cache) = 2
    /\ LET old == ListOf(This)[2]
           new == ListOf(This)[1]
       IN  /\ cache[old].expiresAt # None /\ now <= The(cache[old].expiresAt)
           /\ cache[new].expiresAt # None /\ now > The(cache[new].expiresAt)

\* C17: after clear(), from any reachable state, getStats() reports hits = 0,
\* misses = 0, hitRate = 0, size = 0, evictions = 0 and the maxSize of before,
\* keys() is empty, and the cache is in the state in which the constructor
\* leaves a cache of the same maxSize and defaultTtl, so that it behaves like
\* a new one from then on.
C17_ClearGivesNewCache ==
    LET r == clear(This)
        stats == getStats(r.s).ret
    IN  /\ stats.hits = 0 /\ stats.misses = 0 /\ stats.hitRate[1] = 0
        /\ stats.size = 0 /\ stats.evictions = 0
        /\ stats.maxSize = maxSize
        /\ keys(r.s).ret = {}
        /\ r.s.cache = EmptyMap
        /\ r.s.next = [n \in Nodes |-> IF n = HEAD THEN TAIL ELSE Null]
        /\ r.s.prev = [n \in Nodes |-> IF n = TAIL THEN HEAD ELSE Null]
        /\ r.s.hits = 0 /\ r.s.misses = 0 /\ r.s.evictions = 0

\* C17 witness: an empty cache with all counters at 0 in which a get and an
\* eviction were made before: it was cleared.
C17_Witness ==
    /\ cache = EmptyMap /\ hits = 0 /\ misses = 0 /\ evictions = 0
    /\ hist.getsEver >= 1 /\ hist.fullInsertsEver >= 1

\* C18: keys() returns exactly the stored keys whose entry has no expiration
\* or has now <= expiresAt, and changes no state: the expired entries stay
\* stored, and the counters and the recency order stay as they are.
C18_KeysReadsOnly ==
    LET r == keys(This)
    IN  /\ r.ret = {k \in DOMAIN cache :
                       cache[k].expiresAt = None \/ now <= The(cache[k].expiresAt)}
        /\ r.s = This
        /\ DOMAIN r.s.cache = DOMAIN cache
        /\ ListOf(r.s) = ListOf(This)

\* C18 witness: of two stored entries keys() returns one, the other being
\* expired and still stored.
C18_Witness ==
    /\ Cardinality(DOMAIN cache) = 2
    /\ Cardinality(keys(This).ret) = 1

\* C19: cleanup() removes exactly the stored entries with now > expiresAt,
\* keeps the others as they are and in their order, returns the number it
\* removed, by which the size decreases; afterwards keys() has as many keys
\* as the cache has entries.
C19_CleanupRemovesExpired ==
    LET r == cleanup(This)
        expired == {k \in DOMAIN cache :
                       cache[k].expiresAt # None /\ now > The(cache[k].expiresAt)}
    IN  /\ DOMAIN r.s.cache = DOMAIN cache \ expired
        /\ \A k \in DOMAIN r.s.cache : r.s.cache[k] = cache[k]
        /\ ListOf(r.s) = SelectSeq(ListOf(This), LAMBDA k : k \notin expired)
        /\ r.ret = Cardinality(expired)
        /\ Cardinality(DOMAIN r.s.cache) = Cardinality(DOMAIN cache) - r.ret
        /\ Cardinality(keys(r.s).ret) = Cardinality(DOMAIN r.s.cache)

\* C19 witness: two stored entries with an expiration, one past it and one
\* exactly at it.
C19_Witness ==
    /\ Cardinality(DOMAIN cache) = 2
    /\ \E k \in DOMAIN cache : cache[k].expiresAt # None /\ now > The(cache[k].expiresAt)
    /\ \E k \in DOMAIN cache : cache[k].expiresAt = Some(now)

\* The step removes the stored key k in one of the ways the cache has of
\* removing an entry.
RemovalCause(k) ==
    LET expired == cache[k].expiresAt # None /\ now > The(cache[k].expiresAt)
    IN  \/ Delete(k)
        \/ /\ Cardinality(DOMAIN cache) >= maxSize
           /\ k = ListOf(This)[Cardinality(DOMAIN cache)]
           /\ \E j \in DOMAIN cache' \ DOMAIN cache, t \in TTLs : Set(j, cache'[j].value, t)
        \/ expired /\ (Get(k) \/ Has(k) \/ Cleanup)
        \/ Clear

\* C20: a stored entry leaves the cache only by delete of its key, by the
\* eviction a set of a new key makes at capacity, by get or has of its key
\* after it expired, by cleanup after it expired, or by clear. The passage
\* of time, keys(), getStats(), and get, has and delete of another key
\* remove no entry and leave the size.
C20_EntriesLeaveOnlyByRemoval ==
    [][/\ \A k \in DOMAIN cache : k \notin DOMAIN cache' => RemovalCause(k)
       /\ DOMAIN cache' # DOMAIN cache => ~(Tick \/ KeysOp \/ GetStats)
       /\ \A j \in SmallKeys :
              ~(DOMAIN cache \ {j} \subseteq DOMAIN cache') => ~(Get(j) \/ Has(j) \/ Delete(j))
      ]_vars

\* C20 witness: time has passed and an entry past its expiration is still
\* stored, in a cache that has evicted an entry and missed a get.
C20_Witness ==
    /\ now > Now0 /\ evictions >= 1 /\ misses >= 1
    /\ \E k \in DOMAIN cache : cache[k].expiresAt # None /\ now > The(cache[k].expiresAt)

\* The cache after set of each entry of entries, in their order.
RECURSIVE SetEach(_, _)
SetEach(s, entries) ==
    IF entries = << >> THEN s
    ELSE SetEach(set(s, Head(entries).key, Head(entries).value, Head(entries).ttl).s,
                 Tail(entries))

\* The elements of seq at the positions in P, in their order.
Pick(seq, P) ==
    LET F[i \in 0..Len(seq)] ==
            IF i = 0 THEN << >>
            ELSE IF i \in P THEN Append(F[i - 1], seq[i]) ELSE F[i - 1]
    IN  F[Len(seq)]

\* C21: setMultiple(entries) leaves the entries, the recency order and the
\* counters that set(key, value, ttl) of each entry in input order leaves,
\* repeated keys included; success lists the keys in input order, total is
\* the input length and |success| + |failed| = total.
C21_SetMultipleIsSequentialSets ==
    \A es \in Batches(BatchEntries) :
        LET r == setMultiple(This, es)
        IN  /\ r.s = SetEach(This, es)
            /\ r.ret.success = [i \in 1..Len(es) |-> es[i].key]
            /\ r.ret.total = Len(es)
            /\ Len(r.ret.success) + Len(r.ret.failed) = r.ret.total

\* C21 witness: a full cache of two entries, one with and one without an
\* expiration, after an eviction.
C21_Witness ==
    /\ maxSize = 2 /\ Cardinality(DOMAIN cache) = 2 /\ evictions = 1
    /\ \E k \in DOMAIN cache : cache[k].expiresAt = None
    /\ \E k \in DOMAIN cache : cache[k].expiresAt # None

\* C24: deleteMultiple(keys) makes one delete per input key in input order:
\* deleted lists the first occurrence of each stored key, notFound every
\* other position, a stored key given twice being in both;
\* |deleted| + |notFound| = total = the input length, and the size decreases
\* by |deleted|.
C24_DeleteMultipleEachPosition ==
    \A ks \in Batches(SmallKeys) :
        LET r == deleteMultiple(This, ks)
            removed == {i \in 1..Len(ks) :
                           ks[i] \in DOMAIN cache /\ \A j \in 1..(i - 1) : ks[j] # ks[i]}
        IN  /\ r.ret.deleted = Pick(ks, removed)
            /\ r.ret.notFound = Pick(ks, (1..Len(ks)) \ removed)
            /\ r.ret.total = Len(ks)
            /\ Len(r.ret.deleted) + Len(r.ret.notFound) = r.ret.total
            /\ Cardinality(DOMAIN r.s.cache)
                   = Cardinality(DOMAIN cache) - Len(r.ret.deleted)
            /\ DOMAIN r.s.cache = DOMAIN cache \ Range(ks)

\* C24 witness: a cache holding two keys and lacking a third, after a hit.
C24_Witness ==
    /\ Cardinality(DOMAIN cache) = 2 /\ hits >= 1
    /\ SmallKeys \ DOMAIN cache # {}

\* C25 as claimed: deleteMultiple reports a key whose entry has expired in
\* notFound and not in deleted, as it does a key that is not stored, also
\* when the expired entry is still stored.
C25_ExpiredReportedNotFound ==
    \A k \in SmallKeys :
        LET r == deleteMultiple(This, <<k>>)
            expired == k \in DOMAIN cache /\ cache[k].expiresAt # None
                       /\ now > The(cache[k].expiresAt)
        IN  (k \notin DOMAIN cache \/ expired) =>
                (r.ret.notFound = <<k>> /\ r.ret.deleted = << >>)

\* C25 (as amended): deleteMultiple reports in notFound a key that is not
\* stored, which is the case of an expired entry that a get, has or cleanup
\* has removed; an expired entry that is still stored is deleted and reported
\* in deleted, the size decreasing by one.
C25_ExpiredStoredReportedDeleted ==
    \A k \in SmallKeys :
        LET r == deleteMultiple(This, <<k>>)
            expired == k \in DOMAIN cache /\ cache[k].expiresAt # None
                       /\ now > The(cache[k].expiresAt)
            afterGet == deleteMultiple(get(This, k).s, <<k>>)
            afterHas == deleteMultiple(has(This, k).s, <<k>>)
            afterCleanup == deleteMultiple(cleanup(This).s, <<k>>)
        IN  /\ k \notin DOMAIN cache => (r.ret.notFound = <<k>> /\ r.ret.deleted = << >>)
            /\ expired =>
                   /\ r.ret.deleted = <<k>> /\ r.ret.notFound = << >>
                   /\ Cardinality(DOMAIN r.s.cache) = Cardinality(DOMAIN cache) - 1
                   /\ afterGet.ret.notFound = <<k>> /\ afterGet.ret.deleted = << >>
                   /\ afterHas.ret.notFound = <<k>> /\ afterHas.ret.deleted = << >>
                   /\ afterCleanup.ret.notFound = <<k>> /\ afterCleanup.ret.deleted = << >>

\* C25 witness: an expired entry is stored, and a get has missed.
C25_Witness ==
    /\ misses >= 1
    /\ \E k \in DOMAIN cache : cache[k].expiresAt # None /\ now > The(cache[k].expiresAt)
    /\ SmallKeys \ DOMAIN cache # {}

\* C26: setMultiple of n distinct keys that are not stored, on a cache of
\* capacity c, fails no entry: success is the input keys, failed is empty,
\* the size afterwards is min(c, size before + n), the entries evicted are
\* the stored keys in least-recently-used order and then the input keys in
\* input order, and when n >= c the stored keys are the last c input keys.
C26_BatchOfNewKeys ==
    \A n \in 1..Cardinality(SmallKeys) :
        \A ks \in DistinctSeqs(SmallKeys \ DOMAIN cache, n) :
            LET es == [i \in 1..n |-> [key |-> ks[i], value |-> "v1", ttl |-> None]]
                r == setMultiple(This, es)
                size == Cardinality(DOMAIN cache)
                lost == IF size + n > maxSize THEN size + n - maxSize ELSE 0
                order == EvictionOrder(This, Cardinality(Nodes)) \o ks
            IN  /\ r.ret.success = ks
                /\ r.ret.failed = << >>
                /\ Cardinality(DOMAIN r.s.cache)
                       = IF size + n > maxSize THEN maxSize ELSE size + n
                /\ DOMAIN r.s.cache = {order[i] : i \in (lost + 1)..Len(order)}
                /\ r.s.evictions = evictions + lost
                /\ n >= maxSize =>
                       DOMAIN r.s.cache = {ks[i] : i \in (n - maxSize + 1)..n}

\* C26 witness: a cache of capacity 2 holds one key, so that a batch of two
\* new keys evicts it and one of three evicts the first of them too.
C26_Witness ==
    /\ maxSize = 2 /\ Cardinality(DOMAIN cache) = 1 /\ hits >= 1 /\ evictions = 0

\* C28: from every reachable state, set returns true for every key, value
\* and ttl, and setMultiple returns an empty failed list and a success list
\* as long as its input.
C28_SetAlwaysSucceeds ==
    /\ \A k \in SmallKeys, v \in Values, t \in TTLs : set(This, k, v, t).ret = TRUE
    /\ \A es \in Batches(BatchEntries) :
           LET r == setMultiple(This, es)
           IN  r.ret.failed = << >> /\ Len(r.ret.success) = Len(es)

\* C28 witness: a full cache after an eviction, where a set of a new key has
\* to evict again.
C28_Witness ==
    /\ Cardinality(DOMAIN cache) = maxSize /\ evictions >= 1
    /\ \E k \in DOMAIN cache : cache[k].expiresAt # None /\ now > The(cache[k].expiresAt)

\* C22: getMultiple(keys) makes one get per input key in input order: found
\* and notFound hold every input position once, each in input order,
\* |found| + |notFound| = total = the input length, hits increases by
\* |found| and misses by |notFound|, and the keys found are promoted in
\* input order, the last of them being the most recent afterwards.
C22_GetMultipleCountsFound ==
    \A ks \in Batches(SmallKeys) :
        LET r == getMultiple(This, ks)
            foundKeys == [i \in 1..Len(r.ret.found) |-> r.ret.found[i][1]]
        IN  /\ r.ret.total = Len(ks)
            /\ Len(r.ret.found) + Len(r.ret.notFound) = r.ret.total
            /\ \E P \in SUBSET (1..Len(ks)) :
                   /\ foundKeys = Pick(ks, P)
                   /\ r.ret.notFound = Pick(ks, (1..Len(ks)) \ P)
            /\ r.s.hits = hits + Len(r.ret.found)
            /\ r.s.misses = misses + Len(r.ret.notFound)
            /\ foundKeys # << >> => ListOf(r.s)[1] = foundKeys[Len(foundKeys)]

\* C23: getMultiple reports in found, with its stored value, exactly each
\* requested key that is stored and not expired when it is called, and in
\* notFound each requested key that is not stored or has expired.
C23_FoundIsStoredUnexpired ==
    \A ks \in Batches(SmallKeys) :
        LET r == getMultiple(This, ks)
            live == {i \in 1..Len(ks) :
                        /\ ks[i] \in DOMAIN cache
                        /\ (cache[ks[i]].expiresAt = None
                                \/ now <= The(cache[ks[i]].expiresAt))}
        IN  /\ r.ret.found = Pick([i \in 1..Len(ks) |->
                                       <<ks[i], IF ks[i] \in DOMAIN cache
                                                THEN cache[ks[i]].value ELSE Undefined>>],
                                  live)
            /\ r.ret.notFound = Pick(ks, (1..Len(ks)) \ live)

\* C27: new LRUCache with maxSize <= 0 throws 'maxSize must be greater than
\* 0' and gives no cache; with maxSize > 0 it gives a cache of that capacity
\* with size 0, the counters at 0 and no keys; with maxSize omitted the
\* capacity is 1000. Every cache there is has a capacity > 0.
C27_Construction ==
    /\ maxSize > 0
    /\ \A o \in [maxSize : {None, Some(-1), Some(0), Some(1), Some(MaxCap)},
                  defaultTtl : DefaultTtls] :
           LET r == constructor(o)
           IN  IF o.maxSize # None /\ The(o.maxSize) <= 0
               THEN r.error = "maxSize must be greater than 0" /\ r.s = Null
               ELSE /\ r.error = Null
                    /\ r.maxSize = IF o.maxSize = None THEN 1000 ELSE The(o.maxSize)
                    /\ r.defaultTtl = o.defaultTtl
                    /\ Cardinality(DOMAIN r.s.cache) = 0
                    /\ r.s.hits = 0 /\ r.s.misses = 0 /\ r.s.evictions = 0
                    /\ keys(r.s).ret = {}
                    /\ ListOf(r.s) = << >>

\* C27 witness: the cache constructed without maxSize, before any call: its
\* capacity is 1000, it is empty and its counters are 0.
C27_Witness ==
    /\ maxSize = 1000 /\ hist.scen = 0
    /\ cache = EmptyMap /\ hits = 0 /\ misses = 0 /\ evictions = 0

\* The batch method op called as a whole on the cache s.
RunBatch(op, s, input) ==
    CASE op = "setMultiple" -> setMultiple(s, input)
      [] op = "getMultiple" -> getMultiple(s, input)
      [] op = "deleteMultiple" -> deleteMultiple(s, input)

\* The lengths of the two lists of a batch result, added.
Reported(op, result) ==
    CASE op = "setMultiple" -> Len(result.success) + Len(result.failed)
      [] op = "getMultiple" -> Len(result.found) + Len(result.notFound)
      [] op = "deleteMultiple" -> Len(result.deleted) + Len(result.notFound)

\* C29: with several callers, every call is one atomic step: between the
\* items of a setMultiple, getMultiple or deleteMultiple no call of another
\* caller takes effect, so that at each item, and when the batch returns,
\* the cache and the result are those of the batch method applied as a whole
\* to the cache it was called on; the reachable states are those of the
\* complete calls made one after the other.
C29_BatchIsOneStep ==
    run.op # "idle" =>
        LET done == SubSeq(run.input, 1, Len(run.input) - Len(run.todo))
            r == RunBatch(run.op, run.from, done)
        IN  /\ run.foreign = 0
            /\ This = r.s
            /\ [run.result EXCEPT !.total = Len(done)] = r.ret
            /\ run.result.total = Len(run.input)

\* C29 witness: a setMultiple of two entries has made its two sets on a cache
\* that already held a key, the second evicting, and has not returned yet.
C29_Witness ==
    /\ run.op = "setMultiple" /\ Len(run.input) = 2 /\ run.todo = << >>
    /\ DOMAIN run.from.cache # {}
    /\ evictions > run.from.evictions

\* C30: when only each item of a batch is atomic, single-item calls of other
\* callers running between the items, every reachable state has size <=
\* maxSize and a recency list that holds exactly the keys of the map, each
\* once, and every batch result has |success| + |failed| = total
\* (|found| + |notFound|, |deleted| + |notFound|) when the batch returns.
C30_InterleavedItemsKeepInvariants ==
    /\ Cardinality(DOMAIN cache) <= maxSize
    /\ Range(ListOf(This)) = DOMAIN cache
    /\ Len(ListOf(This)) = Cardinality(DOMAIN cache)
    /\ run.op # "idle" =>
           /\ run.result.total = Len(run.input)
           /\ Reported(run.op, run.result) = Len(run.input) - Len(run.todo)
           /\ run.todo = << >> => Reported(run.op, run.result) = run.result.total

\* C30 witness: a batch of two items is about to return after a call of
\* another caller ran between its items, and the full cache is not the one
\* the batch alone would have left.
C30_Witness ==
    /\ run.op # "idle" /\ Len(run.input) = 2 /\ run.todo = << >>
    /\ run.foreign >= 1
    /\ Cardinality(DOMAIN cache) = maxSize
    /\ This # RunBatch(run.op, run.from, run.input).s
\* The requests of client id c that the middleware has seen, in order.
RequestsOf(c) == SelectSeq(answered, LAMBDA a : a.clientId = c)

\* The window each request of reqs falls in, and its rank in that window: a
\* window opens with the first request, and with the first request made
\* later than windowMs after the opening of the window before.
WindowOf(reqs, windowMs) ==
    LET W[i \in 1..Len(reqs)] ==
            IF i = 1 \/ reqs[i].at > W[i - 1].opened + windowMs
            THEN [opened |-> reqs[i].at, rank |-> 1]
            ELSE [opened |-> W[i - 1].opened, rank |-> W[i - 1].rank + 1]
    IN  W

\* C31: for each client id taken by itself, a window opens with its first
\* request, or its first request later than resetTime, and resetTime is the
\* opening time plus windowMs; the first maxRequests requests of a window go
\* on to the next handler, every further one is answered 429 and goes no
\* further.
C31_AtMostMaxRequestsPerWindow ==
    \A c \in {ClientId(ip) : ip \in Ips} :
        LET reqs == RequestsOf(c)
            W == WindowOf(reqs, limiter.windowMs)
        IN  /\ c \in DOMAIN requestCounts <=> reqs # << >>
            /\ reqs # << >> =>
                   /\ requestCounts[c].resetTime = W[Len(reqs)].opened + limiter.windowMs
                   /\ requestCounts[c].count = W[Len(reqs)].rank
            /\ \A i \in 1..Len(reqs) :
                   /\ reqs[i].next <=> W[i].rank <= limiter.maxRequests
                   /\ reqs[i].status = (IF reqs[i].next THEN None ELSE Some(429))

\* A client is refused in one window and admitted in its next window, while
\* another client has been admitted in between.
C31_Witness ==
    \E i, j, k \in 1..Len(answered) :
        /\ i < j /\ j < k
        /\ answered[i].clientId = answered[k].clientId
        /\ answered[j].clientId # answered[i].clientId
        /\ ~answered[i].next /\ answered[i].status = Some(429)
        /\ answered[j].next
        /\ answered[k].next /\ answered[k].at > answered[i].at

\* The route that was registered as app.<method>(path, handler).
Registered(method, path) ==
    CHOOSE i \in 1..Len(Routes) : Routes[i].method = method /\ Routes[i].path = path

\* C32: a GET /api/cache/batch request is handled by the batch-get handler
\* and a DELETE /api/cache/batch request by the batch-delete handler, not by
\* the handlers of /api/cache/:key.
C32_BatchRoutesReachBatchHandlers ==
    (response.method \in {"GET", "DELETE"} /\ response.path = <<"api", "cache", "batch">>)
        => response.handler = Registered(response.method, response.path)

\* The recency list of s walked backwards: the nodes met from tail.prev on,
\* the least recent first, up to the head sentinel.
RECURSIVE BackFrom(_, _, _)
BackFrom(s, node, fuel) ==
    IF node = HEAD THEN << >>
    ELSE IF node = Null \/ fuel = 0 THEN <<Null>>
    ELSE <<node>> \o BackFrom(s, s.prev[node], fuel - 1)

BackOf(s) == BackFrom(s, s.prev[TAIL], Cardinality(Nodes))

\* The list of s is well formed: the sentinels are its two ends, both walks
\* pass size nodes, and the links of each node agree with its neighbours'.
WellFormed(s) ==
    /\ s.prev[HEAD] = Null /\ s.next[TAIL] = Null
    /\ Null \notin Range(ListOf(s)) /\ Len(ListOf(s)) = Cardinality(DOMAIN s.cache)
    /\ Null \notin Range(BackOf(s)) /\ Len(BackOf(s)) = Cardinality(DOMAIN s.cache)
    /\ HEAD \notin Range(ListOf(s)) /\ TAIL \notin Range(BackOf(s))
    /\ \A n \in Range(ListOf(s)) :
           /\ s.prev[s.next[n]] = n
           /\ s.prev[n] # Null /\ s.next[s.prev[n]] = n

\* C33: the list is well formed in every reachable state, and stays so
\* under evictLRU, which removes the key before the tail sentinel and, on an
\* empty list, nothing: the sentinels stay linked to each other.
C33_ListWellFormed ==
    /\ WellFormed(This)
    /\ LET e == evictLRU(This)
       IN  /\ WellFormed(e)
           /\ HEAD \notin DOMAIN e.cache /\ TAIL \notin DOMAIN e.cache
           /\ cache = EmptyMap =>
                  /\ e.next[HEAD] = TAIL /\ e.prev[TAIL] = HEAD
                  /\ e.evictions = evictions
           /\ cache # EmptyMap =>
                  /\ DOMAIN e.cache = DOMAIN cache \ {prev[TAIL]}
                  /\ ListOf(e) = Without(ListOf(This), prev[TAIL])

\* C33 witness: two nodes are linked both ways after an eviction and a hit
\* that moved a node to the front.
C33_Witness ==
    /\ Len(BackOf(This)) = 2 /\ BackOf(This) = Reverse(ListOf(This))
    /\ evictions >= 1 /\ hits >= 1

\* C34: since construction or the last clear, size = the sets that inserted
\* a new key - evictions - the deletes that returned true, those of
\* deleteMultiple included - the expired entries removed by get, has and
\* cleanup.
C34_EntryAccounting ==
    hist.ledger.on =>
        Cardinality(DOMAIN cache)
            = hist.ledger.inserts - evictions - hist.ledger.deleted - hist.ledger.lapsed

\* C34 witness: of three insertions one was evicted, one deleted and one
\* removed as expired.
C34_Witness ==
    /\ hist.ledger.on
    /\ hist.ledger.inserts = 3 /\ evictions = 1
    /\ hist.ledger.deleted = 1 /\ hist.ledger.lapsed = 1

\* C35: the capacity check of set counts every stored entry, expired or
\* not, and the entry evicted is the least recently used one, expired or
\* not: a set of a new key at size = capacity removes exactly the key before
\* the tail sentinel and every other entry, expired ones included, stays
\* stored; below capacity nothing is removed. keys() never has more keys
\* than getStats().size.
C35_EvictionByRecencyAlone ==
    /\ Cardinality(keys(This).ret) <= getStats(This).ret.size
    /\ \A k \in SmallKeys \ DOMAIN cache, v \in Values, t \in TTLs :
           LET r == set(This, k, v, t)
           IN  IF getStats(This).ret.size = maxSize
               THEN /\ DOMAIN r.s.cache = (DOMAIN cache \ {prev[TAIL]}) \cup {k}
                    /\ r.s.evictions = evictions + 1
                    /\ \A j \in DOMAIN cache \ {prev[TAIL]} : r.s.cache[j] = cache[j]
               ELSE /\ DOMAIN r.s.cache = DOMAIN cache \cup {k}
                    /\ r.s.evictions = evictions

\* C35 witness: the cache is full, its least recently used entry is not
\* expired and another entry is; keys() is shorter than size, and the set of
\* a new key evicts the unexpired entry and keeps the expired one.
C35_Witness ==
    \E k \in SmallKeys \ DOMAIN cache, j \in DOMAIN cache :
        LET r == set(This, k, "v1", None)
        IN  /\ getStats(This).ret.size = maxSize
            /\ j # prev[TAIL]
            /\ Expired(cache[j]) /\ ~Expired(cache[prev[TAIL]])
            /\ getStats(This).ret.size > Cardinality(keys(This).ret)
            /\ prev[TAIL] \notin DOMAIN r.s.cache
            /\ j \in DOMAIN r.s.cache
            /\ getStats(r.s).ret.size > Cardinality(keys(r.s).ret)

\* C36: delete(k) returns true exactly when k is in the map. For a stored
\* entry that is expired and not yet removed it returns true and the size
\* decreases by one, while get(k) and has(k) at the same instant report the
\* key absent.
C36_DeleteDecidesOnPresence ==
    \A k \in SmallKeys :
        LET d == delete(This, k)
        IN  /\ d.ret <=> k \in DOMAIN cache
            /\ (k \in DOMAIN cache /\ Truthy(cache[k].expiresAt)
                   /\ now > The(cache[k].expiresAt)) =>
                   /\ d.ret
                   /\ getStats(d.s).ret.size = getStats(This).ret.size - 1
                   /\ k \notin DOMAIN d.s.cache
                   /\ get(This, k).ret = Undefined
                   /\ ~has(This, k).ret

\* C36 witness: of two stored entries one is expired, has reports it
\* absent and delete reports it deleted; the other is not expired.
C36_Witness ==
    \E k, j \in DOMAIN cache :
        /\ Expired(cache[k]) /\ ~Expired(cache[j])
        /\ cache[k].value # Undefined
        /\ delete(This, k).ret /\ ~has(This, k).ret
        /\ DOMAIN delete(This, k).s.cache = {j}

Visible(k) == k \in DOMAIN cache /\ ~(Truthy(cache[k].expiresAt) /\ now > The(cache[k].expiresAt))

\* C38: the clock never going back, a key whose entry is expired, or was
\* removed, stays invisible until it is set again: get(k) returns
\* undefined, has(k) returns false and keys() does not contain k, and the
\* only step after which the key is visible again is a set(k, ...).
C38_ExpiredUntilSetAgain ==
    /\ [](\A k \in SmallKeys :
             ~Visible(k) =>
                 /\ get(This, k).ret = Undefined
                 /\ ~has(This, k).ret
                 /\ k \notin keys(This).ret
                 /\ k \notin keys(get(This, k).s).ret
                 /\ k \notin keys(has(This, k).s).ret
                 /\ k \notin keys(cleanup(This).s).ret)
    /\ [][\A k \in SmallKeys :
               (~Visible(k) /\ Visible(k)') => \E v \in Values, t \in TTLs : Set(k, v, t)]_vars

\* C38 witness: an entry set with a ttl has expired by the passing of time
\* and is still stored, a get of another key having hit since it was set.
C38_Witness ==
    \E k \in DOMAIN cache :
        /\ Truthy(cache[k].expiresAt) /\ The(cache[k].expiresAt) > Now0
        /\ now > The(cache[k].expiresAt)
        /\ cache[k].value # Undefined
        /\ hits >= 1 /\ ListOf(This)[1] # k
        /\ ~has(This, k).ret

\* C39: set(k, v, ttl) on a stored key whose entry is expired updates the
\* entry in place: it gets the value and a fresh expiration and becomes the
\* most recent, the size, the other entries and the counters stay as they
\* are and nothing is evicted, also at size = capacity; the cache afterwards
\* is the one that delete(k) followed by set(k, v, ttl) gives.
C39_SetOnExpiredStoredKey ==
    \A k \in DOMAIN cache, v \in Values, t \in TTLs :
        (Truthy(cache[k].expiresAt) /\ now > The(cache[k].expiresAt)) =>
            LET r == set(This, k, v, t)
                d == delete(This, k)
                ds == set(d.s, k, v, t)
            IN  /\ r.ret
                /\ r.s.cache[k].value = v
                /\ r.s.cache[k].expiresAt
                       = (IF Truthy(EffectiveTtl(t)) THEN Some(now + The(EffectiveTtl(t)))
                          ELSE None)
                /\ ListOf(r.s) = <<k>> \o Without(ListOf(This), k)
                /\ DOMAIN r.s.cache = DOMAIN cache
                /\ \A j \in DOMAIN cache \ {k} : r.s.cache[j] = cache[j]
                /\ r.s.hits = hits /\ r.s.misses = misses /\ r.s.evictions = evictions
                /\ d.ret /\ Cardinality(DOMAIN d.s.cache) < maxSize
                /\ ds.ret
                /\ ds.s.cache = r.s.cache /\ ds.s.next = r.s.next /\ ds.s.prev = r.s.prev
                /\ ds.s.hits = r.s.hits /\ ds.s.misses = r.s.misses
                /\ ds.s.evictions = r.s.evictions

\* C39 witness: a full cache of two entries whose least recently used one
\* is expired; the set of that key keeps both entries and evicts nothing.
C39_Witness ==
    \E k \in DOMAIN cache :
        /\ Cardinality(DOMAIN cache) = maxSize /\ maxSize = 2
        /\ prev[TAIL] = k
        /\ Truthy(cache[k].expiresAt) /\ now > The(cache[k].expiresAt)
        /\ DOMAIN set(This, k, "v1", Some(1)).s.cache = DOMAIN cache
        /\ set(This, k, "v1", Some(1)).s.next[HEAD] = k
        /\ set(This, k, "v1", Some(1)).s.cache[k].expiresAt = Some(now + 1)

\* The entries of s other than those of the keys in gone are the entries of
\* the cache now, with their values and expirations and in the same order.
Survivors(s, gone) ==
    /\ DOMAIN s.cache = DOMAIN cache \ gone
    /\ \A j \in DOMAIN s.cache :
           s.cache[j].value = cache[j].value /\ s.cache[j].expiresAt = cache[j].expiresAt
    /\ ListOf(s) = SelectSeq(ListOf(This), LAMBDA j : j \notin gone)

\* C40: cleanup(), and the removal of an expired entry by get and by has,
\* leave evictions as it is and keep the values, the expirations and the
\* relative recency order of the entries that stay; cleanup leaves hits and
\* misses as they are too.
C40_RemovalOfExpiredFrame ==
    LET expired == {k \in DOMAIN cache :
                       Truthy(cache[k].expiresAt) /\ now > The(cache[k].expiresAt)}
        c == cleanup(This)
    IN  /\ c.s.evictions = evictions /\ c.s.hits = hits /\ c.s.misses = misses
        /\ Survivors(c.s, expired)
        /\ \A k \in expired :
               /\ get(This, k).s.evictions = evictions
               /\ Survivors(get(This, k).s, {k})
               /\ has(This, k).s.evictions = evictions
               /\ Survivors(has(This, k).s, {k})

\* C40 witness: after an eviction and a hit, an expired entry is stored in
\* front of an entry whose expiration is still ahead; cleanup removes the
\* one and keeps the other.
C40_Witness ==
    \E k, j \in DOMAIN cache :
        /\ Truthy(cache[k].expiresAt) /\ now > The(cache[k].expiresAt)
        /\ Truthy(cache[j].expiresAt) /\ now <= The(cache[j].expiresAt)
        /\ ListOf(This) = <<k, j>>
        /\ evictions = 1 /\ hits >= 1
        /\ cleanup(This).ret = 1
        /\ ListOf(cleanup(This).s) = <<j>>

====
